---- MODULE Spec2Model ----
(***************************************************************************)
(* AspectRatioBox (src/src/aspect_ratio_box.rs): a widget holding an       *)
(* optional child and a ratio = width / height.  The f64 values of the     *)
(* source are modelled as exact rationals in lowest terms, so the          *)
(* comparisons, products and quotients of layout are computed, not         *)
(* assumed; NaN and the infinities are outside the modelled inputs.        *)
(***************************************************************************)
EXTENDS Integers, Sequences, FiniteSets, TLC

\* ---------------------------------------------------------------- bounds
\* Offered sizes are the integers 0..MaxDim in each axis.
MaxDim == 3
\* Ratios handed to new/set_ratio/with_ratio are n/d, n in -1..MaxNum, d in 1..MaxDen.
MaxNum == 3
MaxDen == 2

\* ------------------------------------------------------------- rationals
Abs(i) == IF i < 0 THEN -i ELSE i

RECURSIVE Gcd(_, _)
Gcd(a, b) == IF b = 0 THEN a ELSE Gcd(b, a % b)

\* the rational n/d (d # 0) in lowest terms with a positive denominator
Rat(n, d) ==
  LET g == Gcd(Abs(n), Abs(d))
      s == IF d < 0 THEN -1 ELSE 1
  IN [n |-> s * (n \div g), d |-> s * (d \div g)]

Int2R(i) == [n |-> i, d |-> 1]
Zero == Int2R(0)
One == Int2R(1)
\* the value of a slot the last operation did not use (0/0 is no rational)
Unused == [n |-> 0, d |-> 0]

Lt(a, b) == a.n * b.d < b.n * a.d
Le(a, b) == a.n * b.d <= b.n * a.d
Gt(a, b) == Lt(b, a)
Ge(a, b) == Le(b, a)
Mul(a, b) == Rat(a.n * b.n, a.d * b.d)
Div(a, b) == Rat(a.n * b.d, a.d * b.n)
\* f64::min of two numbers
MinR(a, b) == IF Lt(b, a) THEN b ELSE a

\* -------------------------------------------------- Size, BoxConstraints
Size(w, h) == [width |-> w, height |-> h]
SizeZero == Size(Zero, Zero)
NoSize == Size(Unused, Unused)

\* BoxConstraints::tight(size): min = max = size
Tight(s) == [min |-> s, max |-> s]

Dims == {Int2R(i) : i \in 0..MaxDim}
\* the constraints a parent offers: finite, min <= max in each axis
ParentBcs ==
  {[min |-> Size(a, b), max |-> Size(c, e)] :
     <<a, b, c, e>> \in {q \in Dims \X Dims \X Dims \X Dims :
                          Le(q[1], q[3]) /\ Le(q[2], q[4])}}

\* the ratio arguments a caller passes
Ratios == {Rat(n, d) : <<n, d>> \in (-1..MaxNum) \X (1..MaxDen)}

\* ------------------------------------------------ set_ratio / with_ratio
\* f64::clamp(self, min, max) asserts min <= max before anything else
ClampPanics(min, max) == ~Le(min, max)
\* f64::clamp(self, min, max) when the assertion holds
Clamp(self, min, max) ==
  IF Lt(self, min) THEN min ELSE IF Gt(self, max) THEN max ELSE self

\* lines 54-57: ratio = f64::clamp(0.0, 1.0, ratio); if ratio == 0.0 { ratio = 1.0 }
\* the receiver of clamp is 0.0, its bounds are 1.0 and the argument
NormalizePanics(x) == ClampPanics(One, x)
Normalize(x) ==
  LET c == Clamp(Zero, One, x)
  IN IF c = Zero THEN One ELSE c

\* ------------------------------------------------------- layout, resolved
\* TightLt1 with the test `height * ratio <= width` lost: the height always drives
TightLt1_HeightDrives(w, h, r) == Size(Mul(h, r), h)

\* lines 118-125, self.ratio < 1.0
TightLt1(w, h, r) ==
  IF (Ge(h, w) /\ Le(Mul(h, r), w)) \/ Gt(w, h)
    THEN Size(Mul(h, r), h)
    ELSE IF Ge(h, w) /\ Gt(Mul(h, r), w)
      THEN Size(w, Div(w, r))
      ELSE Size(w, h)

\* lines 129-138, self.ratio > 1.0
TightGt1(w, h, r) ==
  IF Gt(w, h) /\ Lt(Mul(h, r), w)
    THEN Size(Mul(h, r), h)
    ELSE IF (Gt(w, h) /\ Gt(Mul(h, r), w)) \/ Gt(h, w)
      THEN Size(w, Div(w, r))
      ELSE Size(w, h)

\* TightEq1 taking the larger side
TightEq1_Max(w, h) == LET m == IF Lt(w, h) THEN h ELSE w IN Size(m, m)

\* lines 141-144, the square
TightEq1(w, h) == Size(MinR(w, h), MinR(w, h))

\* lines 113-144: the size of the tight constraint for bc.max() = (w, h)
TightSize(w, h, r) ==
  IF Lt(r, One) THEN TightLt1(w, h, r)
  ELSE IF Gt(r, One) THEN TightGt1(w, h, r)
  ELSE TightEq1(w, h)

\* ReturnedSize reporting the box's own tight size in both arms
ReturnedSize_Own(hasInner, childSize, t) == t

\* lines 148-151: the size layout returns
ReturnedSize(hasInner, childSize, t) == IF hasInner THEN childSize ELSE t

\* lines 148-155: the child's layout is called at line 149 and again at line 154
LayoutCalls(hasInner) == IF hasInner THEN <<"layout", "layout">> ELSE <<>>

\* what a child may answer to layout(t): t itself, or a size of its own
ChildSizes(t) == {t, Size(Int2R(MaxDim), Int2R(MaxDim))}

\* Forward without the test for a child
Forward_Always(hasInner, m) == <<m>>

\* `if let Some(ref mut inner) = self.inner { inner.m(..) }`
Forward(hasInner, m) == IF hasInner THEN <<m>> ELSE <<>>

\* line 175: self.inner.as_ref().and_then(|inner| inner.id())
IdOf(hasInner, cid) == IF hasInner THEN cid ELSE "None"

ChildIds == {"None", "Some"}

\* ------------------------------------------------------------------ state
\* inner, ratio and panicked are the program's state; the other variables record
\* the last operation: its name, arguments, results and calls on the child.
VARIABLES
  inner,      \* TRUE iff self.inner is Some
  ratio,      \* self.ratio
  panicked,   \* TRUE once an assertion has unwound the caller
  op,         \* the operation that ran last
  x,          \* its ratio argument (new, with_ratio, set_ratio)
  bc,         \* its constraints argument (layout)
  tight,      \* the tight constraint it computed (layout)
  size,       \* the size it returned (layout)
  forwarded,  \* the child's methods it called, in order
  childBc,    \* the constraints it passed to the child's layout, in order
  childRet,   \* the sizes the child's layout returned to it, in order
  childId,    \* what the child's id() answered to it (id)
  idRet       \* what it returned (id)

vars == <<inner, ratio, panicked, op, x, bc, tight, size, forwarded, childBc,
          childRet, childId, idRet>>

\* ------------------------------------------------------ construction
\* new(inner, ratio), lines 19-24: the ratio is stored as given
New(r) ==
  /\ inner = TRUE /\ ratio = r /\ x = r /\ op = "new" /\ panicked = FALSE

\* empty(), lines 27-32
Empty ==
  /\ inner = FALSE /\ ratio = One /\ x = One /\ op = "empty" /\ panicked = FALSE

\* with_ratio(self, ratio), lines 39-46: takes the box by value, so it is a step
\* of the expression that constructs the box: new(c, r).with_ratio(y), empty().with_ratio(y)
WithRatio(hasInner, y) ==
  /\ inner = hasInner /\ x = y /\ op = "with_ratio"
  /\ panicked = NormalizePanics(y)
  /\ ratio = IF NormalizePanics(y) THEN One ELSE Normalize(y)

Init ==
  /\ bc = Tight(NoSize) /\ tight = Tight(NoSize) /\ size = NoSize
  /\ forwarded = <<>> /\ childBc = <<>> /\ childRet = <<>>
  /\ childId = "None" /\ idRet = "None"
  /\ \/ \E r \in Ratios : New(r)
     \/ Empty
     \/ \E hasInner \in BOOLEAN, y \in Ratios : WithRatio(hasInner, y)

\* ------------------------------------------------------------ operations
NoLayout ==
  /\ bc' = Tight(NoSize) /\ tight' = Tight(NoSize) /\ size' = NoSize
  /\ childBc' = <<>> /\ childRet' = <<>>
NoId == childId' = "None" /\ idRet' = "None"

\* set_ratio(&mut self, ratio), lines 53-59
set_ratio(y) ==
  /\ ~panicked
  /\ op' = "set_ratio" /\ x' = y
  /\ IF NormalizePanics(y)
       THEN panicked' = TRUE /\ UNCHANGED ratio
       ELSE ratio' = Normalize(y) /\ UNCHANGED panicked
  /\ forwarded' = <<>>
  /\ NoLayout /\ NoId
  /\ UNCHANGED inner

\* event / lifecycle / update / paint, lines 90-106 and 168-172
Delegate(m) ==
  /\ ~panicked
  /\ op' = m
  /\ forwarded' = Forward(inner, m)
  /\ x' = Unused /\ NoLayout /\ NoId
  /\ UNCHANGED <<inner, ratio, panicked>>

event == Delegate("event")
lifecycle == Delegate("lifecycle")
update == Delegate("update")
paint == Delegate("paint")

\* id(&self), lines 174-176
id ==
  /\ ~panicked
  /\ op' = "id"
  /\ \E cid \in ChildIds :
       /\ childId' = IF inner THEN cid ELSE "None"
       /\ idRet' = IdOf(inner, cid)
  /\ forwarded' = Forward(inner, "id")
  /\ x' = Unused /\ NoLayout
  /\ UNCHANGED <<inner, ratio, panicked>>

\* layout(&mut self, ctx, bc, data, env), lines 108-166
layout(b) ==
  /\ ~panicked
  /\ op' = "layout" /\ bc' = b
  /\ LET t == TightSize(b.max.width, b.max.height, ratio)
         calls == LayoutCalls(inner)
     IN /\ tight' = Tight(t)
        /\ forwarded' = calls
        /\ childBc' = [i \in 1..Len(calls) |-> Tight(t)]
        /\ childRet' \in [1..Len(calls) -> ChildSizes(t)]
        /\ size' = ReturnedSize(inner, IF calls = <<>> THEN NoSize ELSE childRet'[1], t)
  /\ x' = Unused /\ NoId
  /\ UNCHANGED <<inner, ratio, panicked>>

Next ==
  \/ \E y \in Ratios : set_ratio(y)
  \/ event
  \/ lifecycle
  \/ update
  \/ paint
  \/ id
  \/ \E b \in ParentBcs : layout(b)

Spec == Init /\ [][Next]_vars

\* ------------------------------------------------------------ properties
LayoutDone == op = "layout"
MaxW == bc.max.width
MaxH == bc.max.height
TW == tight.max.width
TH == tight.max.height
\* the tight constraint has the stored ratio and lies within the offered max
RatioAndFit == TW = Mul(TH, ratio) /\ Le(TW, MaxW) /\ Le(TH, MaxH)

\* C1: after set_ratio(x) or with_ratio(x) the call has completed and the stored
\* ratio is 1 when x <= 0 and x clamped to [0, 1] otherwise.
C1_Expected(y) == IF Le(y, Zero) THEN One ELSE Clamp(y, Zero, One)
C1_SetterClamps ==
  op \in {"set_ratio", "with_ratio"} => ~panicked /\ ratio = C1_Expected(x)

\* C2: with a stored ratio > 1, the tight constraint of every layout pass has
\* width = height * ratio and lies within the offered max (w = h included).
C2_WideRatioAndFit == (LayoutDone /\ Gt(ratio, One)) => RatioAndFit

\* C3: with a stored ratio strictly between 0 and 1, the tight constraint of every
\* layout pass has width = height * ratio, width <= max.width, height <= max.height.
C3_TallRatioAndFit ==
  (LayoutDone /\ Gt(ratio, Zero) /\ Lt(ratio, One)) =>
     tight.min = tight.max /\ RatioAndFit
\* a pass in which the width drove: the height was cut below the offered one
C3_Witness ==
  /\ LayoutDone /\ Gt(ratio, Zero) /\ Lt(ratio, One)
  /\ TW = MaxW /\ Gt(TH, Zero) /\ Lt(TH, MaxH)

\* C4: with a stored ratio of exactly 1, the tight constraint of every layout pass
\* is the square of side min(max.width, max.height), whatever min was offered.
C4_Square ==
  (LayoutDone /\ ratio = One) =>
     LET m == IF Le(MaxW, MaxH) THEN MaxW ELSE MaxH
     IN tight = [min |-> Size(m, m), max |-> Size(m, m)]
\* a pass with unequal sides and an offered min above the resulting square
C4_Witness ==
  /\ LayoutDone /\ ratio = One /\ MaxW # MaxH
  /\ Gt(bc.min.width, Zero) /\ Gt(bc.min.height, Zero)
  /\ Lt(TH, MaxH)

\* C5: with a stored ratio > 0, the tight constraint of every layout pass lies
\* between the offered min and the offered max in both axes.
C5_WithinParentBounds ==
  (LayoutDone /\ Gt(ratio, Zero)) =>
     /\ Le(bc.min.width, TW) /\ Le(TW, MaxW)
     /\ Le(bc.min.height, TH) /\ Le(TH, MaxH)

\* C6: layout returns the tight size when the box has no child, and the size the
\* child's layout returned when it has one, also when that size is not the tight one.
C6_ReturnedSize ==
  LayoutDone =>
     IF inner THEN Len(childRet) >= 1 /\ size = childRet[1]
              ELSE size = tight.max
\* a pass whose child answered a size other than the tight one
C6_Witness == LayoutDone /\ inner /\ childRet[1] # tight.max /\ size = childRet[1]

\* C7: the stored ratio is strictly positive in every reachable state.
C7_RatioPositive == Gt(ratio, Zero)

\* C8: with a stored ratio > 0 and an offered max with both sides > 0, the tight
\* constraint has the ratio, fits in max and touches max in at least one axis.
C8_LargestFit ==
  (LayoutDone /\ Gt(ratio, Zero) /\ Gt(MaxW, Zero) /\ Gt(MaxH, Zero)) =>
     RatioAndFit /\ (TW = MaxW \/ TH = MaxH)

\* C9: a layout pass calls the child's layout exactly once, with the tight
\* constraint, when there is a child, and not at all when there is none.
C9_ChildLaidOutOnce ==
  LayoutDone =>
     /\ tight.min = tight.max
     /\ forwarded = IF inner THEN <<"layout">> ELSE <<>>
     /\ childBc = IF inner THEN <<tight>> ELSE <<>>

\* C10: event, lifecycle, update and paint call the same method of the child once
\* when there is a child and nothing otherwise; id answers the child's id or none;
\* these and layout leave the ratio and the child in place; the ratio changes only
\* in a set_ratio step.
C10_Step ==
  /\ op' \in {"event", "lifecycle", "update", "paint"} =>
        forwarded' = IF inner THEN <<op'>> ELSE <<>>
  /\ op' = "id" => idRet' = IF inner THEN childId' ELSE "None"
  /\ op' \in {"event", "lifecycle", "update", "paint", "id", "layout"} =>
        ratio' = ratio /\ inner' = inner
  /\ ratio' # ratio => op' = "set_ratio"
C10_DelegationFrame == [][C10_Step]_vars
\* paint reached the child once, and id answered the child's id
C10_Witness ==
  \/ op = "paint" /\ inner /\ forwarded = <<"paint">>
  \/ op = "id" /\ inner /\ idRet = "Some"

====
